---- MODULE Spec2Model ----
(***************************************************************************)
(* Model of the preset add-on: the process-wide JSON asset cache            *)
(* (utils.py) and the operators of the HDRI, render-preset and              *)
(* output-preset components that read and write the preset files.           *)
(***************************************************************************)
EXTENDS Integers, Sequences, FiniteSets, TLC

VARIABLES
    files,       \* the preset files on disk: file name -> [st, data]
    json_cache,  \* utils._json_cache: a dict, cache key (path string) -> value
    parsed,      \* history: per key, the result of the loader's last successful read-and-parse
    lastOp,      \* history: the most recent loader call or file modification
    prevOp,      \* history: the one before it
    scene,       \* host scene state written by the operators
    props,       \* the add-on's property groups on the scene
    disk,        \* the rest of the file system the operators look at
    outcome      \* history: what the most recent operator did and returned

vars == <<files, json_cache, parsed, lastOp, prevOp, scene, props, disk, outcome>>

-----------------------------------------------------------------------------
(* Bounds *)

\* longest preset list a file may hold (save operators stop appending there)
MaxPresets == 2

-----------------------------------------------------------------------------
(* Files and cache keys *)

FileNames == {"hdri.json", "render.json", "output.json"}

\* The path strings the code passes to the loader.  "rel" is
\* os.path.join(os.path.dirname(__file__), "..", "properties", X) and "abs" is
\* os.path.join(os.path.abspath(<components>/..), "properties", X): two
\* different strings (hence two different dict keys) naming the same file.
HdriRelKey   == "components/../properties/hdri.json"
RenderRelKey == "components/../properties/render.json"
RenderAbsKey == "properties/render.json"
OutputRelKey == "components/../properties/output.json"

Keys == {HdriRelKey, RenderRelKey, RenderAbsKey, OutputRelKey}

\* open(json_path): the file a key resolves to
FileOf(k) ==
    CASE k = HdriRelKey   -> "hdri.json"
      [] k = RenderRelKey -> "render.json"
      [] k = RenderAbsKey -> "render.json"
      [] k = OutputRelKey -> "output.json"

\* A Python value handed around by the loader: None, or parsed JSON content.
None      == [none |-> TRUE,  data |-> <<>>]
Some(d)   == [none |-> FALSE, data |-> d]

\* A file on disk: present and parseable ("ok"), absent ("missing"),
\* or present but not valid JSON ("corrupt").
OkFile(d)   == [st |-> "ok", data |-> d]
MissingFile == [st |-> "missing", data |-> <<>>]
CorruptFile == [st |-> "corrupt", data |-> <<>>]

\* with open(json_path, "r") as f: json.load(f)  -- succeeds or raises
CanParse(f) == f.st = "ok"

-----------------------------------------------------------------------------
(* utils.py *)

\* The mutants below are load_json_asset with one plausible slip each.
load_json_asset_caching_failure(cache, fs, filename) ==
    IF filename \in DOMAIN cache
    THEN [cache |-> cache, ret |-> cache[filename], nread |-> 0]
    ELSE IF CanParse(fs[FileOf(filename)])
         THEN [cache |-> (filename :> Some(fs[FileOf(filename)].data)) @@ cache,
               ret   |-> Some(fs[FileOf(filename)].data),
               nread |-> 1]
         ELSE [cache |-> (filename :> None) @@ cache, ret |-> None, nread |-> 1]

load_json_asset_not_caching(cache, fs, filename) ==
    IF filename \in DOMAIN cache
    THEN [cache |-> cache, ret |-> cache[filename], nread |-> 0]
    ELSE IF CanParse(fs[FileOf(filename)])
         THEN [cache |-> cache,
               ret   |-> Some(fs[FileOf(filename)].data),
               nread |-> 1]
         ELSE [cache |-> cache, ret |-> None, nread |-> 1]

\* load_json_asset(filename): the new cache, the returned value and the
\* number of open()+json.load() attempts made.
load_json_asset(cache, fs, filename) ==
    IF filename \in DOMAIN cache
    THEN [cache |-> cache, ret |-> cache[filename], nread |-> 0]
    ELSE IF CanParse(fs[FileOf(filename)])
         THEN [cache |-> (filename :> Some(fs[FileOf(filename)].data)) @@ cache,
               ret   |-> Some(fs[FileOf(filename)].data),
               nread |-> 1]
         ELSE [cache |-> cache, ret |-> None, nread |-> 1]

\* del _json_cache[filename]
Evict(cache, filename) == [k \in (DOMAIN cache) \ {filename} |-> cache[k]]

refresh_json_asset_without_evicting(cache, fs, filename) ==
    load_json_asset(cache, fs, filename)

\* refresh_json_asset(filename)
refresh_json_asset(cache, fs, filename) ==
    load_json_asset(IF filename \in DOMAIN cache THEN Evict(cache, filename) ELSE cache,
                    fs, filename)

-----------------------------------------------------------------------------
(* Preset data (spec section 3; the shapes the operators read with .get) *)

\* An entry of hdri.json: {file, display_name}
HdriEntry(file, name) == [file |-> file, display_name |-> name]

EntryStudio == HdriEntry("studio.exr", "Studio")
EntrySky    == HdriEntry("sky.exr", "Sky")

\* An entry of render.json.  keys is the set of keys the JSON object holds; a
\* key that is absent carries a filler value here and is read through Get.
\* Float fields are held as integers: noise_thresh in 1/1000, filter_width and
\* render_percentage in 1/100, time in seconds.
RenderFields == {"display_name", "noise_thresh", "samples", "time", "render_percentage",
                 "engine", "device", "persistent_data", "use_tiling", "filter_width",
                 "transparent"}

RenderEntry(name, noise, samples, time, pct, engine, device, pers, tiling, fw, transp, keys) ==
    [display_name |-> name, noise_thresh |-> noise, samples |-> samples, time |-> time,
     render_percentage |-> pct, engine |-> engine, device |-> device,
     persistent_data |-> pers, use_tiling |-> tiling, filter_width |-> fw,
     transparent |-> transp, keys |-> keys]

PresetFinal   == RenderEntry("Final", 10, 512, 0, 100, "CYCLES", "GPU",
                             TRUE, TRUE, 150, TRUE, RenderFields)
PresetPreview == RenderEntry("Preview", 100, 128, 30, 100, "cycles", "GPU",
                             FALSE, TRUE, 100, FALSE, RenderFields)
PresetHalf    == RenderEntry("Half", 10, 512, 0, 50, "CYCLES", "GPU",
                             TRUE, TRUE, 150, TRUE, RenderFields)
PresetDraft   == RenderEntry("Draft", 100, 64, 0, 29, "CYCLES", "CPU",
                             TRUE, FALSE, 150, TRUE, RenderFields)
PresetClay    == RenderEntry("Clay", 0, 0, 0, 0, "BLENDER_WORKBENCH", "",
                             FALSE, FALSE, 0, FALSE,
                             {"display_name", "engine", "transparent"})
PresetBare    == RenderEntry("Final", 0, 0, 0, 0, "", "",
                             FALSE, FALSE, 0, FALSE, {"display_name"})
PresetSketch  == RenderEntry("Sketch", 0, 0, 0, 50, "blender_workbench", "",
                             FALSE, FALSE, 0, FALSE,
                             {"display_name", "engine", "render_percentage"})

\* dict.get(key, default)
Get(d, key, default) == IF key \in d.keys THEN d[key] ELSE default

\* str.upper() on the engine names that occur
Upper(s) ==
    CASE s = "cycles" -> "CYCLES"
      [] s = "blender_workbench" -> "BLENDER_WORKBENCH"
      [] OTHER -> s

\* An entry of output.json, the object keyed by format tag: the tag with its
\* record.  passes is the "passes" sub-object: the pass names it holds (keys)
\* and those among them whose value is true (on).
OutputFields == {"display_name", "file_format", "color_depth", "exr_codec", "passes"}

OutputEntry(tag, name, fmt, depth, codec, pkeys, pon, keys) ==
    [tag |-> tag, display_name |-> name, file_format |-> fmt, color_depth |-> depth,
     exr_codec |-> codec, passes |-> [keys |-> pkeys, on |-> pon], keys |-> keys]

FormatExr == OutputEntry("exr", "OpenEXR MultiLayer", "OPEN_EXR_MULTILAYER", "32", "DWAA",
                         {"cryptomatte_object", "shadow_catcher", "ambient_occlusion",
                          "denoising_data", "z"},
                         {"cryptomatte_object", "ambient_occlusion", "z"}, OutputFields)
FormatExrBare == OutputEntry("exr", "OpenEXR MultiLayer", "", "", "", {}, {},
                         {"display_name"})
FormatExrFlat == OutputEntry("exr", "OpenEXR", "OPEN_EXR", "16", "", {}, {},
                         {"display_name", "file_format", "color_depth"})
FormatPng == OutputEntry("png", "PNG", "PNG", "8", "", {}, {},
                         {"display_name", "file_format", "color_depth"})
FormatMov == OutputEntry("mov", "Movie", "FFMPEG", "", "", {}, {},
                         {"display_name", "file_format"})

-----------------------------------------------------------------------------
(* History of loader calls *)

NoOp == [op |-> "none", key |-> "", ret |-> None, pre |-> None, hit |-> FALSE, nread |-> 0]

\* What the most recent step did when it was an operator's execute(): its
\* name, the status it returned ("RAISED" when an exception left it) and the
\* levels of its self.report calls, in order.  Any other step resets it to
\* NoOutcome.
NoOutcome ==
    [op |-> "none", result |-> "", reports |-> <<>>, name |-> "",
     entry |-> <<>>, before |-> <<>>]

\* name: the preset name or tag the operator worked on; entry: the preset it
\* applied or saved, as a one-element list; before: the list it read from the
\* preset file before appending.
Done(op, result, reports, name, entry, before) ==
    [op |-> op, result |-> result, reports |-> reports, name |-> name,
     entry |-> entry, before |-> before]

\* The record of a call of load_json_asset / refresh_json_asset on key k that
\* started from cache c and produced r.
CallRecord(name, c, k, r) ==
    [op |-> name, key |-> k, ret |-> r.ret,
     pre |-> IF k \in DOMAIN c THEN c[k] ELSE None,
     hit |-> k \in DOMAIN c, nread |-> r.nread]

\* What the last successful read-and-parse of each key returned: a call that
\* opened the file (nread = 1) while it was parseable read its content.
ParsedAfter(p, fs, k, r) ==
    IF r.nread = 1 /\ CanParse(fs[FileOf(k)])
    THEN [p EXCEPT ![k] = Some(fs[FileOf(k)].data)]
    ELSE p

\* A loader call made from anywhere in the add-on, with the files as fs when
\* it ran: cache, history.
CalledOn(name, k, r, fs) ==
    /\ json_cache' = r.cache
    /\ parsed' = ParsedAfter(parsed, fs, k, r)
    /\ prevOp' = lastOp
    /\ lastOp' = CallRecord(name, json_cache, k, r)

Called(name, k, r) == CalledOn(name, k, r, files)

\* A loader call made inside an operator or a draw callback: the cache and
\* the parse history change; lastOp and prevOp log the direct calls only.
Inner(k, r, fs) ==
    /\ json_cache' = r.cache
    /\ parsed' = ParsedAfter(parsed, fs, k, r)
    /\ UNCHANGED <<lastOp, prevOp>>

NoCall == UNCHANGED <<json_cache, parsed, lastOp, prevOp>>

-----------------------------------------------------------------------------
(* The asset loader on its own: utils.load_json_asset, utils.refresh_json_asset
   and outside edits of the files *)

Load(k) ==
    /\ Called("load", k, load_json_asset(json_cache, files, k))
    /\ UNCHANGED <<files, scene, props, disk, outcome>>

Refresh(k) ==
    /\ Called("refresh", k, refresh_json_asset(json_cache, files, k))
    /\ UNCHANGED <<files, scene, props, disk, outcome>>

\* Somebody outside the process rewrites, removes or garbles a preset file.
ModifyFile(f, c) ==
    /\ c # files[f]
    /\ files' = [files EXCEPT ![f] = c]
    /\ prevOp' = lastOp
    /\ lastOp' = [NoOp EXCEPT !.op = "modify", !.key = f]
    /\ UNCHANGED <<json_cache, parsed, scene, props, disk, outcome>>

\* The same outside edit while the operators run (not logged in lastOp).
EditFile(f, c) ==
    /\ c # files[f]
    /\ files' = [files EXCEPT ![f] = c]
    /\ outcome' = NoOutcome
    /\ NoCall
    /\ UNCHANGED <<scene, props, disk>>

-----------------------------------------------------------------------------
(* components/quick_render.py: helper functions *)

\* presets if presets is not None else []
OrEmpty(v) == IF v = None THEN <<>> ELSE v.data

\* load_render_presets(): the loader call it makes, and the list it returns
load_render_presets(cache, fs) == load_json_asset(cache, fs, RenderRelKey)

\* The pairs <<c, m>>, 1 <= c <= 100 and 1 <= m <= 100, for which the IEEE-754
\* double product c * (m / 100.0) falls just below the integer c*m/100
\* (100 * 0.29 is 28.999999999999996), so that int() of it is one short.
\* Every other product in that range truncates to the floor of c*m/100.
ShortProducts == {<<50, 58>>, <<90, 70>>, <<100, 29>>, <<100, 57>>, <<100, 58>>}

\* int(c * float(m / 100.0)) for a percentage c and a multiplier of m hundredths
IntOfProduct(c, m) ==
    ((c * m) \div 100) - (IF <<c, m>> \in ShortProducts THEN 1 ELSE 0)

\* scene.render.resolution_percentage or 100
OrHundred(pct) == IF pct = 0 THEN 100 ELSE pct

\* 2 ** n
RECURSIVE Pow2(_)
Pow2(n) == IF n = 0 THEN 1 ELSE 2 * Pow2(n - 1)

\* round(math.log(target, 2)) for an integer target >= 1: the k with
\* k - 1/2 < log2(target) < k + 1/2, that is 2^(2k) < 2 * target^2 < 2^(2k+2)
\* (log2 of an integer is never exactly half way between two integers).
RoundLog2(target) ==
    CHOOSE k \in 0..14 : Pow2(2 * k) < 2 * target * target
                         /\ 2 * target * target < Pow2(2 * k + 2)

RoundLog2Floor(target) ==
    CHOOSE k \in 0..14 : Pow2(k) <= target /\ target < Pow2(k + 1)

\* lines 53-58: the dimension the tile size is derived from
TargetDimensionAlwaysMax(width, height) == IF width > height THEN width ELSE height

TargetDimension(width, height) ==
    IF (width > 2 * height) \/ (height > 2 * width)
    THEN (IF width < height THEN width ELSE height)
    ELSE (IF width > height THEN width ELSE height)

\* tile_size = 2 ** round(math.log(target, 2))
TileSizeFloor(width, height) == Pow2(RoundLog2Floor(TargetDimension(width, height)))

TileSize(width, height) == Pow2(RoundLog2(TargetDimension(width, height)))

apply_cycles_render_settings(r, render_preset_data, pr) ==
    [r EXCEPT
       !.adaptive_threshold = Get(render_preset_data, "noise_thresh", 10),
       !.samples = Get(render_preset_data, "samples", 512),
       !.time_limit = Get(render_preset_data, "time", 0),
       !.denoiser = pr.denoiser_type,
       !.use_denoising = IF pr.denoiser_type = "OPTIX" THEN TRUE ELSE @,
       !.denoising_quality =
            IF pr.denoiser_type = "OPENIMAGEDENOISE" THEN pr.denoiser_quality ELSE @,
       !.denoising_use_gpu =
            IF pr.denoiser_type = "OPENIMAGEDENOISE" THEN pr.denoiser_use_gpu ELSE @,
       !.use_persistent_data = Get(render_preset_data, "persistent_data", TRUE),
       !.use_auto_tile = Get(render_preset_data, "use_tiling", TRUE),
       !.filter_width = Get(render_preset_data, "filter_width", 100),
       !.film_transparent = Get(render_preset_data, "transparent", TRUE)]

apply_workbench_render_settings(r, render_preset_data) ==
    [r EXCEPT
       !.film_transparent = Get(render_preset_data, "transparent", TRUE),
       !.light = Upper(Get(render_preset_data, "lighting", "STUDIO")),
       !.color_type = Upper(Get(render_preset_data, "color_type", "MATERIAL")),
       !.show_cavity = Get(render_preset_data, "show_cavity", TRUE),
       !.cavity_type = Upper(Get(render_preset_data, "cavity_type", "BOTH"))]

\* the multiplier applied to 100 instead of to the current percentage
apply_resolution_tile_settings_from_full(r, render_preset_data, preset_engine) ==
    [r EXCEPT
       !.resolution_percentage =
            IntOfProduct(100, Get(render_preset_data, "render_percentage", 100)),
       !.tile_size = IF preset_engine = "CYCLES"
                     THEN TileSize(r.resolution_x, r.resolution_y) ELSE @]

apply_resolution_tile_settings(r, render_preset_data, preset_engine) ==
    [r EXCEPT
       !.resolution_percentage =
            IntOfProduct(OrHundred(r.resolution_percentage),
                         Get(render_preset_data, "render_percentage", 100)),
       !.tile_size = IF preset_engine = "CYCLES"
                     THEN TileSize(r.resolution_x, r.resolution_y) ELSE @]

\* preset_differs(scene, preset_data).  On the grids the float fields are held
\* on, two values differ by more than 1e-6 exactly when they are different.
preset_differs(r, preset_data) ==
    \/ r.adaptive_threshold # Get(preset_data, "noise_thresh", 10)
    \/ r.samples # Get(preset_data, "samples", 512)
    \/ r.time_limit # Get(preset_data, "time", 0)
    \/ OrHundred(r.resolution_percentage)
         # IntOfProduct(100, Get(preset_data, "render_percentage", 100))
    \/ r.use_persistent_data # Get(preset_data, "persistent_data", TRUE)
    \/ r.use_auto_tile # Get(preset_data, "use_tiling", TRUE)
    \/ r.filter_width # Get(preset_data, "filter_width", 100)
    \/ r.film_transparent # Get(preset_data, "transparent", TRUE)

\* the last entry whose display_name is the tag instead of the first
FirstMatchTakesLast(render_presets, tag) ==
    LET hits == {i \in 1..Len(render_presets) :
                    /\ "display_name" \in render_presets[i].keys
                    /\ render_presets[i].display_name = tag}
    IN IF hits = {} THEN 0 ELSE CHOOSE i \in hits : \A j \in hits : i >= j

\* lines 98-101: the first entry whose display_name is the tag; 0 when none
\* (p.get("display_name") is None for an entry without the key).
FirstMatch(render_presets, tag) ==
    LET hits == {i \in 1..Len(render_presets) :
                    /\ "display_name" \in render_presets[i].keys
                    /\ render_presets[i].display_name = tag}
    IN IF hits = {} THEN 0 ELSE CHOOSE i \in hits : \A j \in hits : i <= j

-----------------------------------------------------------------------------
(* State after registration *)

\* scene.render, scene.cycles and scene.display.shading: the host's defaults
InitRender ==
    [engine |-> "BLENDER_EEVEE_NEXT", adaptive_threshold |-> 10, samples |-> 4096,
     time_limit |-> 0, denoiser |-> "OPENIMAGEDENOISE", use_denoising |-> FALSE,
     denoising_quality |-> "HIGH", denoising_use_gpu |-> FALSE,
     use_persistent_data |-> FALSE, use_auto_tile |-> TRUE, filter_width |-> 150,
     film_transparent |-> FALSE, resolution_percentage |-> 100,
     resolution_x |-> 1920, resolution_y |-> 1080, tile_size |-> 256, device |-> "CPU",
     light |-> "STUDIO", color_type |-> "MATERIAL", show_cavity |-> FALSE,
     cavity_type |-> "WORLD"]

\* the world's node tree: nodes is whether setup_world_nodes has built the
\* graph; image is the environment texture ("" when none); rotation is the
\* mapping node's Z rotation in degrees
InitWorld == [nodes |-> FALSE, image |-> "", rotation |-> 0, strength |-> 0]

\* The render passes of a view layer that occur here: use_pass_<name> on the
\* view layer or on its cycles settings ("z" stands for the passes that
\* apply_exr_settings sets in its closing loop).
PassNames == {"cryptomatte_object", "cryptomatte_material", "shadow_catcher",
              "ambient_occlusion", "denoising_data", "denoising_store_passes",
              "pass_debug_sample_count", "volume_direct", "volume_indirect", "z"}

\* the passes that live on view_layer.cycles
CyclesPasses == {"shadow_catcher", "denoising_data", "denoising_store_passes",
                 "pass_debug_sample_count", "volume_direct", "volume_indirect"}

\* scene.render.image_settings, scene.render.ffmpeg and the active view layer
InitOutput ==
    [file_format |-> "PNG", color_depth |-> "8", exr_codec |-> "ZIP",
     color_mode |-> "RGBA", compression |-> 15, quality |-> 90, ffmpeg_format |-> "MKV",
     passes |-> [n \in PassNames |-> FALSE]]

InitScene == [render |-> InitRender, world |-> InitWorld, output |-> InitOutput]

\* RenderPresetProperties, HDRIProperties, OutputPresetProperties defaults
InitProps ==
    [render_preset_tag |-> "", denoiser_type |-> "OPTIX", denoiser_quality |-> "HIGH",
     denoiser_use_gpu |-> TRUE,
     hdri_preset |-> "CUSTOM", hdri_base_rotation |-> 0, hdri_rotation_offset |-> 0,
     custom_hdri_filepath |-> "",
     output_preset_tag |-> "exr", use_cryptomatte |-> TRUE,
     use_ambient_occlusion |-> TRUE, use_shadow_catcher |-> TRUE]

\* assets: the files in assets/hdri; user_files: the paths outside the add-on
\* that are files; view_layer: whether the context has an active view layer;
\* supports: the passes its view layer has an attribute for (hasattr)
InitDisk == [assets |-> {"studio.exr"}, user_files |-> {"/home/me/dawn.exr"},
             view_layer |-> TRUE, supports |-> PassNames]

InitFiles ==
    [f \in FileNames |->
        CASE f = "hdri.json"   -> OkFile(<<EntryStudio>>)
          [] f = "render.json" -> OkFile(<<PresetFinal>>)
          [] f = "output.json" -> OkFile(<<FormatExr, FormatPng>>)]

Init ==
    /\ files = InitFiles
    /\ json_cache = <<>>
    /\ parsed = [k \in Keys |-> None]
    /\ lastOp = NoOp
    /\ prevOp = NoOp
    /\ scene = InitScene
    /\ props = InitProps
    /\ disk = InitDisk
    /\ outcome = NoOutcome

-----------------------------------------------------------------------------
(* Specification of the loader alone *)

\* The keys and files the loader is exercised on here: the two path strings
\* of render.json, and hdri.json with its one.
CacheKeys == {RenderRelKey, RenderAbsKey, HdriRelKey}

CachePool(f) ==
    CASE f = "render.json" -> {OkFile(<<PresetFinal>>),
                               OkFile(<<PresetPreview, PresetFinal>>),
                               MissingFile, CorruptFile}
      [] f = "hdri.json"   -> {OkFile(<<EntryStudio>>), MissingFile}

CacheNext ==
    \/ \E k \in CacheKeys : Load(k)
    \/ \E k \in CacheKeys : Refresh(k)
    \/ \E f \in {"render.json", "hdri.json"} : \E c \in CachePool(f) : ModifyFile(f, c)

SpecCache == Init /\ [][CacheNext]_vars

\* C1: every cache entry is the content the loader last read and parsed
\* successfully under that key; the cache never holds None (a failed result).
C1_CacheHoldsLastParsed ==
    \A k \in DOMAIN json_cache :
        /\ json_cache[k] # None
        /\ json_cache[k] = parsed[k]

\* C1 witness: after loads, refreshes and outside edits, one key holds content
\* the file no longer has, another key of the same file holds other content,
\* and a third key is absent after a failed refresh.
C1_Witness ==
    /\ RenderRelKey \in DOMAIN json_cache
    /\ RenderAbsKey \in DOMAIN json_cache
    /\ json_cache[RenderRelKey] # json_cache[RenderAbsKey]
    /\ files["render.json"] # OkFile(json_cache[RenderRelKey].data)
    /\ lastOp.op = "refresh" /\ lastOp.key = HdriRelKey /\ lastOp.hit
    /\ lastOp.ret = None /\ HdriRelKey \notin DOMAIN json_cache

\* C2: refresh(path) on a readable file returns the file's current content,
\* and a load(path) right after it returns the same; load(path) on a path
\* that is cached returns the cached content without looking at the file.
C2_RefreshSurfacesLoadStale ==
    /\ (lastOp.op = "refresh" /\ CanParse(files[FileOf(lastOp.key)]))
          => /\ lastOp.ret = Some(files[FileOf(lastOp.key)].data)
             /\ lastOp.nread = 1
    /\ (lastOp.op = "load" /\ prevOp.op = "refresh" /\ prevOp.key = lastOp.key
            /\ prevOp.ret # None)
          => lastOp.ret = prevOp.ret
    /\ (lastOp.op = "load" /\ lastOp.hit)
          => lastOp.ret = lastOp.pre /\ lastOp.nread = 0

\* C2 witness: a path was cached, its file was then modified, and refresh
\* returned the new content, which differs from what the cache held.
C2_Witness ==
    /\ lastOp.op = "refresh" /\ lastOp.hit
    /\ prevOp.op = "modify" /\ prevOp.key = FileOf(lastOp.key)
    /\ lastOp.ret # None /\ lastOp.ret # lastOp.pre
    /\ lastOp.ret = Some(files[FileOf(lastOp.key)].data)

\* C2 second case reached: a load after an outside edit returned the stale content.
C2_StaleReached ==
    /\ lastOp.op = "load" /\ lastOp.hit
    /\ prevOp.op = "modify" /\ prevOp.key = FileOf(lastOp.key)
    /\ files[FileOf(lastOp.key)] # OkFile(lastOp.ret.data)

\* C3: two load(path) calls in a row on a readable, unchanged file return the
\* same content, and the second performs no read: one read in total when the
\* first call found the path uncached.
C3_LoadTwiceOneRead ==
    (lastOp.op = "load" /\ prevOp.op = "load" /\ prevOp.key = lastOp.key
        /\ CanParse(files[FileOf(lastOp.key)]))
      => /\ lastOp.ret = prevOp.ret
         /\ lastOp.nread = 0
         /\ (~prevOp.hit => prevOp.nread + lastOp.nread = 1)

\* C3 witness: load, load on an uncached readable file
C3_Witness ==
    /\ lastOp.op = "load" /\ prevOp.op = "load" /\ prevOp.key = lastOp.key
    /\ ~prevOp.hit /\ prevOp.nread = 1 /\ lastOp.hit
    /\ lastOp.ret = Some(files[FileOf(lastOp.key)].data)

\* A load that fails to read or parse returns None and leaves the cache
\* without an entry for the path, so the next load of that path reads again.
AfterFailedLoad ==
    /\ (lastOp.op \in {"load", "refresh"} /\ lastOp.nread = 1
            /\ ~CanParse(files[FileOf(lastOp.key)]))
          => /\ lastOp.ret = None
             /\ lastOp.key \notin DOMAIN json_cache
    /\ (lastOp.op = "load" /\ prevOp.op = "load" /\ prevOp.key = lastOp.key
            /\ prevOp.ret = None)
          => lastOp.nread = 1

\* A load that returns None changes no cache entry.
FailedLoadStep ==
    (lastOp'.op = "load" /\ lastOp' # lastOp /\ lastOp'.ret = None)
       => json_cache' = json_cache

\* C4: when the read or parse fails, load(path) returns None, adds no cache
\* entry for the path and leaves every existing entry as it was, and a later
\* load(path) attempts the read again.
C4_FailureNotCached == []AfterFailedLoad /\ [][FailedLoadStep]_vars

\* C4 witness: a load failed while other entries were cached, then a second
\* load of the same path tried the read again.
C4_Witness ==
    /\ lastOp.op = "load" /\ prevOp.op = "load" /\ prevOp.key = lastOp.key
    /\ prevOp.ret = None /\ lastOp.ret = None /\ lastOp.nread = 1
    /\ DOMAIN json_cache # {}

-----------------------------------------------------------------------------
(* components/quick_render.py: operators *)

\* RENDER_OT_apply_render_preset.execute, lines 106-114: the scene's render
\* settings after applying render_preset_data
ApplyRenderPreset(r, render_preset_data, pr) ==
    LET preset_engine == Upper(Get(render_preset_data, "engine", "CYCLES"))
        r1 == [r EXCEPT !.engine = preset_engine]
        r2 == IF preset_engine = "CYCLES"
              THEN apply_cycles_render_settings(r1, render_preset_data, pr)
              ELSE IF preset_engine = "BLENDER_WORKBENCH"
                   THEN apply_workbench_render_settings(r1, render_preset_data)
                   ELSE r1
    IN apply_resolution_tile_settings(r2, render_preset_data, preset_engine)

\* RENDER_OT_apply_render_preset.execute
RenderApply ==
    LET r == load_render_presets(json_cache, files)
        render_presets == OrEmpty(r.ret)
        i == FirstMatch(render_presets, props.render_preset_tag)
    IN /\ Inner(RenderRelKey, r, files)
       /\ IF i = 0
          THEN /\ outcome' = Done("render_apply", "CANCELLED", <<"WARNING">>,
                                  props.render_preset_tag, <<>>, <<>>)
               /\ UNCHANGED scene
          ELSE /\ scene' = [scene EXCEPT
                     !.render = ApplyRenderPreset(scene.render, render_presets[i], props)]
               /\ outcome' = Done("render_apply", "FINISHED", <<"INFO">>,
                                  props.render_preset_tag, <<render_presets[i]>>, <<>>)
       /\ UNCHANGED <<files, props, disk>>

\* RENDER_OT_select_render_preset.execute
SelectRenderPreset(preset_value) ==
    /\ props.render_preset_tag # preset_value
    /\ props' = [props EXCEPT !.render_preset_tag = preset_value]
    /\ outcome' = Done("render_select", "FINISHED", <<>>, preset_value, <<>>, <<>>)
    /\ NoCall
    /\ UNCHANGED <<files, scene, disk>>

\* lines 163-175: the snapshot of the live settings
NewRenderEntry(preset_name, r) ==
    RenderEntry(preset_name, r.adaptive_threshold, r.samples, r.time_limit,
                OrHundred(r.resolution_percentage), r.engine, r.device,
                r.use_persistent_data, r.use_auto_tile, r.filter_width,
                r.film_transparent, RenderFields)

\* The ways "with open(json_path, 'w') as f: json.dump(data, f)" can end:
\* written; open() raised and the file is as it was; the write raised after
\* open() had truncated the file.
WriteOutcomes == {"ok", "open_fails", "dump_fails"}

\* The key RENDER_OT_save_render_preset.execute refreshes (line 195)
RenderSaveRefreshKey == RenderAbsKey

\* RENDER_OT_save_render_preset.execute
RenderSave(preset_name, w) ==
    LET f == files["render.json"]
        data == IF f.st = "ok" THEN f.data ELSE <<>>
        new_entry == NewRenderEntry(preset_name, scene.render)
        written == [files EXCEPT !["render.json"] = OkFile(Append(data, new_entry))]
    IN /\ Len(data) < MaxPresets
       /\ IF f.st = "corrupt"
          THEN /\ outcome' = Done("render_save", "CANCELLED", <<"ERROR">>, preset_name,
                                  <<>>, <<>>)
               /\ NoCall
               /\ UNCHANGED <<files, props>>
          ELSE IF w # "ok"
          THEN /\ files' = IF w = "dump_fails"
                           THEN [files EXCEPT !["render.json"] = CorruptFile]
                           ELSE files
               /\ outcome' = Done("render_save", "CANCELLED", <<"ERROR">>, preset_name,
                                  <<>>, <<>>)
               /\ NoCall
               /\ UNCHANGED props
          ELSE /\ files' = written
               /\ Inner(RenderSaveRefreshKey,
                        refresh_json_asset(json_cache, written, RenderSaveRefreshKey),
                        written)
               /\ props' = [props EXCEPT !.render_preset_tag = new_entry.display_name]
               /\ outcome' = Done("render_save", "FINISHED", <<"INFO">>, preset_name,
                                  <<new_entry>>, data)
       /\ UNCHANGED <<scene, disk>>

\* RENDER_PT_RenderPresetPanel.draw (RENDER_MT_render_preset_menu.draw lists
\* the presets the same way): result is "drift" when the save button is
\* drawn because preset_differs returned True, "no_drift" when it returned
\* False, and "" when it was not called.
DrawRenderPanel ==
    LET r == load_render_presets(json_cache, files)
        presets == OrEmpty(r.ret)
        i == FirstMatch(presets, props.render_preset_tag)
    IN /\ Inner(RenderRelKey, r, files)
       /\ outcome' =
            IF i # 0 /\ Upper(Get(presets[i], "engine", "")) = "CYCLES"
            THEN Done("panel_draw",
                      IF preset_differs(scene.render, presets[i])
                      THEN "drift" ELSE "no_drift",
                      <<>>, props.render_preset_tag, <<presets[i]>>, <<>>)
            ELSE Done("panel_draw", "", <<>>, props.render_preset_tag, <<>>, <<>>)
       /\ UNCHANGED <<files, scene, props, disk>>

\* The contents an outside edit may leave in render.json.
RenderPool == {OkFile(<<PresetFinal>>), OkFile(<<PresetPreview, PresetFinal>>),
               MissingFile, CorruptFile}

\* The user edits the render settings in the host's own panels.
SetResolution(width, height) ==
    /\ <<scene.render.resolution_x, scene.render.resolution_y>> # <<width, height>>
    /\ scene' = [scene EXCEPT !.render.resolution_x = width,
                              !.render.resolution_y = height]
    /\ outcome' = NoOutcome
    /\ NoCall
    /\ UNCHANGED <<files, props, disk>>

SetPercentage(pct) ==
    /\ scene.render.resolution_percentage # pct
    /\ scene' = [scene EXCEPT !.render.resolution_percentage = pct]
    /\ outcome' = NoOutcome
    /\ NoCall
    /\ UNCHANGED <<files, props, disk>>

\* Resolutions the user sets: 16:9, upright 16:9, a 32:9 banner, a square.
Resolutions == {<<1920, 1080>>, <<1080, 1920>>, <<3840, 1080>>, <<1024, 1024>>}

Percentages == {29, 100}

PresetNames == {"Final", "Mine"}

\* Saving, listing and applying render presets while render.json is also
\* edited from outside.
RenderNext ==
    \/ RenderApply
    \/ \E v \in PresetNames \cup {"Preview"} : SelectRenderPreset(v)
    \/ \E n \in PresetNames : \E w \in WriteOutcomes : RenderSave(n, w)
    \/ DrawRenderPanel
    \/ \E c \in RenderPool : EditFile("render.json", c)

SpecRender == Init /\ [][RenderNext]_vars

\* The contents an outside edit may leave in render.json: presets that scale
\* the resolution percentage among them.
TilePool == {OkFile(<<PresetFinal>>), OkFile(<<PresetHalf, PresetDraft>>),
             OkFile(<<PresetClay, PresetBare>>), OkFile(<<PresetSketch>>), MissingFile}

\* Applying render presets to scenes whose resolution and resolution
\* percentage the user changes.
TileNext ==
    \/ RenderApply
    \/ \E v \in {"Final", "Half", "Draft", "Clay", "Sketch"} : SelectRenderPreset(v)
    \/ \E wh \in Resolutions : SetResolution(wh[1], wh[2])
    \/ \E pct \in Percentages : SetPercentage(pct)
    \/ DrawRenderPanel
    \/ \E c \in TilePool : EditFile("render.json", c)

SpecTile == Init /\ [][TileNext]_vars

\* What re-listing the render presets returns in the current state
\* (load_render_presets() as the menu and the panel call it)
RenderListed == OrEmpty(load_render_presets(json_cache, files).ret)

\* C5: after a successful render save-as-preset with name N, re-listing the
\* render presets returns the list the file held before plus exactly one new
\* entry, whose display_name is N, and N is the selected tag.
C5_SaveThenRelist ==
    (outcome.op = "render_save" /\ outcome.result = "FINISHED")
      => /\ RenderListed = Append(outcome.before, outcome.entry[1])
         /\ outcome.entry[1].display_name = outcome.name
         /\ props.render_preset_tag = outcome.name

\* The file itself does hold the previous list plus the new entry, and the
\* key the operator refreshed is up to date; the key load_render_presets
\* reads under is not that key.
C5_FileAndRefreshedKey ==
    (outcome.op = "render_save" /\ outcome.result = "FINISHED")
      => /\ files["render.json"] = OkFile(Append(outcome.before, outcome.entry[1]))
         /\ json_cache[RenderAbsKey] = Some(files["render.json"].data)

C5_StaleReached ==
    /\ outcome.op = "render_save" /\ outcome.result = "FINISHED"
    /\ RenderListed = outcome.before

\* The positions in the listed presets whose display_name is the tag
NamedLike(listed, tag) ==
    {i \in 1..Len(listed) :
        "display_name" \in listed[i].keys /\ listed[i].display_name = tag}

\* C13: render apply uses the first entry, in the order of the preset list,
\* whose display_name equals the current render_preset_tag: that entry's
\* engine and sample count are what the scene holds afterwards, entries of the
\* same name further down are not applied, and when no entry matches the
\* operator returns CANCELLED.
C13_FirstMatchWins ==
    outcome.op = "render_apply" =>
      LET hits == NamedLike(RenderListed, props.render_preset_tag)
      IN IF hits = {}
         THEN outcome.result = "CANCELLED" /\ outcome.entry = <<>>
         ELSE \E i \in hits :
                /\ \A j \in hits : i <= j
                /\ outcome.result = "FINISHED"
                /\ outcome.entry = <<RenderListed[i]>>
                /\ scene.render.engine = Upper(Get(RenderListed[i], "engine", "CYCLES"))
                /\ scene.render.engine = "CYCLES"
                     => scene.render.samples = Get(RenderListed[i], "samples", 512)

\* C13 witness: a preset was applied while a second, different entry of the
\* same name stood further down the list (saved under the used name)
C13_Witness ==
    /\ outcome.op = "render_apply" /\ outcome.result = "FINISHED"
    /\ \E i, j \in NamedLike(RenderListed, props.render_preset_tag) :
          /\ i < j
          /\ RenderListed[i].samples # RenderListed[j].samples
          /\ scene.render.samples = RenderListed[i].samples

\* C13 witness of the other half: no entry carried the tag and the apply was
\* cancelled although the list was not empty
C13_UnmatchedReached ==
    /\ outcome.op = "render_apply" /\ outcome.result = "CANCELLED"
    /\ RenderListed # <<>>
    /\ NamedLike(RenderListed, props.render_preset_tag) = {}

IsPow2(n) == \E k \in 0..14 : n = Pow2(k)

\* The dimension the tile size is derived from, as the spec words it: the
\* smaller one when the aspect ratio exceeds 2:1, else the larger one.
SpecTarget(w, h) ==
    LET lo == IF w < h THEN w ELSE h
        hi == IF w < h THEN h ELSE w
    IN IF hi > 2 * lo THEN lo ELSE hi

AppliedCycles ==
    /\ outcome.op = "render_apply" /\ outcome.result = "FINISHED"
    /\ Upper(Get(outcome.entry[1], "engine", "CYCLES")) = "CYCLES"

\* C8 as written: a path-traced preset applied at 1920x1080 derives the tile
\* size from 1920 and writes 1024.
C8_Tile1024 ==
    (AppliedCycles /\ scene.render.resolution_x = 1920 /\ scene.render.resolution_y = 1080)
      => /\ SpecTarget(1920, 1080) = 1920
         /\ scene.render.tile_size = 1024

\* C8 amended: after a path-traced preset is applied the tile size is the
\* power of two nearest to the target dimension in log space, that is
\* target / sqrt(2) < tile < target * sqrt(2); at 1920x1080 the target is
\* 1920 and the tile size is 2048.
C8_TileNearestPow2 ==
    AppliedCycles =>
      LET t == SpecTarget(scene.render.resolution_x, scene.render.resolution_y)
          tile == scene.render.tile_size
      IN /\ IsPow2(tile)
         /\ tile * tile < 2 * t * t
         /\ t * t < 2 * tile * tile
         /\ (scene.render.resolution_x = 1920 /\ scene.render.resolution_y = 1080)
               => (t = 1920 /\ tile = 2048)

\* C8 witness: a path-traced preset was applied at 1920x1080
C8_Witness ==
    /\ AppliedCycles
    /\ scene.render.resolution_x = 1920 /\ scene.render.resolution_y = 1080
    /\ scene.render.tile_size = 2048

\* also reached: an aspect ratio beyond 2:1, where the smaller dimension counts
C8_WideReached ==
    /\ AppliedCycles
    /\ scene.render.resolution_x = 3840 /\ scene.render.resolution_y = 1080
    /\ scene.render.tile_size = 1024

\* A step that was a render apply ending in FINISHED
RenderAppliedStep == outcome'.op = "render_apply" /\ outcome'.result = "FINISHED"

\* C14: every successful render apply, whatever the preset's engine, sets the
\* resolution percentage to the truncated product of the percentage before the
\* apply (100 when that is 0) and the preset's render_percentage multiplier
\* (1.0 when the preset has none).
C14_PercentageCompounds ==
    [][RenderAppliedStep =>
          LET before == IF scene.render.resolution_percentage = 0
                        THEN 100 ELSE scene.render.resolution_percentage
              hundredths == IF "render_percentage" \in outcome'.entry[1].keys
                            THEN outcome'.entry[1].render_percentage ELSE 100
          IN scene'.render.resolution_percentage = IntOfProduct(before, hundredths)]_vars

\* C14 witness: a real-time (workbench) preset with multiplier 0.5 was applied
\* to a scene at 29 percent, which is then at 14 percent
C14_Witness ==
    /\ outcome.op = "render_apply" /\ outcome.result = "FINISHED"
    /\ Upper(Get(outcome.entry[1], "engine", "CYCLES")) = "BLENDER_WORKBENCH"
    /\ Get(outcome.entry[1], "render_percentage", 100) = 50
    /\ scene.render.resolution_percentage = 14

\* also reached: a path-traced preset applied to a scene at 14 percent leaves
\* it at 7 percent; an apply leaves 0 percent, which the next apply takes as 100
C14_CyclesReached ==
    /\ AppliedCycles
    /\ Get(outcome.entry[1], "render_percentage", 100) = 50
    /\ scene.render.resolution_percentage = 7

C14_ZeroReached ==
    /\ outcome.op = "render_apply" /\ outcome.result = "FINISHED"
    /\ scene.render.resolution_percentage = 0

-----------------------------------------------------------------------------
(* Drift detection: the panel's preset_differs against hand-edited settings *)

\* The user sets one of the compared render settings in the host's panels.
SetRenderField(field, v) ==
    /\ scene.render[field] # v
    /\ scene' = [scene EXCEPT !.render[field] = v]
    /\ outcome' = NoOutcome
    /\ NoCall
    /\ UNCHANGED <<files, props, disk>>

\* The settings preset_differs compares, with the values the user gives them
\* here (floats on the grids of RenderEntry).
FieldValues ==
    [adaptive_threshold |-> {10, 100}, samples |-> {64, 512}, time_limit |-> {0, 30},
     resolution_percentage |-> {29, 100}, use_persistent_data |-> BOOLEAN,
     use_auto_tile |-> BOOLEAN, filter_width |-> {100, 150},
     film_transparent |-> BOOLEAN]

DiffersPool == {OkFile(<<PresetFinal>>), OkFile(<<PresetDraft, PresetPreview>>), MissingFile}

DiffersNext ==
    \/ DrawRenderPanel
    \/ \E v \in {"Final", "Draft", "Preview"} : SelectRenderPreset(v)
    \/ \E field \in DOMAIN FieldValues : \E v \in FieldValues[field] :
          SetRenderField(field, v)
    \/ \E c \in DiffersPool : EditFile("render.json", c)

SpecDiffers == Init /\ [][DiffersNext]_vars

\* The compared fields in which the live settings r are not equal to the
\* preset p: the preset's stored value (its documented default when the key
\* is absent), the resolution percentage being 100 times the multiplier.
ChangedFields(r, p) ==
    {f \in DOMAIN FieldValues :
        r[f] # CASE f = "adaptive_threshold"    -> Get(p, "noise_thresh", 10)
                 [] f = "samples"               -> Get(p, "samples", 512)
                 [] f = "time_limit"            -> Get(p, "time", 0)
                 [] f = "resolution_percentage" -> Get(p, "render_percentage", 100)
                 [] f = "use_persistent_data"   -> Get(p, "persistent_data", TRUE)
                 [] f = "use_auto_tile"         -> Get(p, "use_tiling", TRUE)
                 [] f = "filter_width"          -> Get(p, "filter_width", 100)
                 [] f = "film_transparent"      -> Get(p, "transparent", TRUE)}

\* C7: preset_differs returns false when the live settings equal the preset
\* in every compared field, and true when exactly one compared field has a
\* different value, whichever field it is.
C7_DiffersIffChanged ==
    (outcome.op = "panel_draw" /\ outcome.entry # <<>>)
      => LET changed == ChangedFields(scene.render, outcome.entry[1])
         IN /\ (changed = {}) => outcome.result = "no_drift"
            /\ (Cardinality(changed) = 1) => outcome.result = "drift"

\* reached: drift reported although no compared field differs
C7_FalseDriftReached ==
    /\ outcome.op = "panel_draw" /\ outcome.entry # <<>>
    /\ ChangedFields(scene.render, outcome.entry[1]) = {}
    /\ outcome.result = "drift"

\* The claim does hold of every preset whose multiplier times 100 is exact
\* in floating point.
C7_ExceptShortProducts ==
    (outcome.op = "panel_draw" /\ outcome.entry # <<>>
        /\ <<100, Get(outcome.entry[1], "render_percentage", 100)>> \notin ShortProducts)
      => LET changed == ChangedFields(scene.render, outcome.entry[1])
         IN /\ (changed = {}) => outcome.result = "no_drift"
            /\ (Cardinality(changed) = 1) => outcome.result = "drift"

\* C17: right after a successful render apply of a path-traced (CYCLES)
\* preset, from any prior scene state, preset_differs(scene, that preset)
\* returns false, also when the apply was a repeated one.
C17_NoDriftAfterApply ==
    AppliedCycles => ~preset_differs(scene.render, outcome.entry[1])

\* what does hold: after such an apply the resolution percentage is the only
\* compared field that can differ from the preset, and preset_differs returns
\* true exactly when the percentage the apply left is not 100 times the
\* preset's multiplier
C17_OnlyPercentageDrifts ==
    AppliedCycles =>
      /\ ChangedFields(scene.render, outcome.entry[1]) \subseteq {"resolution_percentage"}
      /\ preset_differs(scene.render, outcome.entry[1])
           <=> (OrHundred(scene.render.resolution_percentage)
                  # IntOfProduct(100, Get(outcome.entry[1], "render_percentage", 100)))

\* reached: drift right after applying a preset with multiplier 0.5, the
\* scene being at 25 percent (100, then 50, then 25)
C17_DriftAfterApplyReached ==
    /\ AppliedCycles
    /\ Get(outcome.entry[1], "render_percentage", 100) = 50
    /\ scene.render.resolution_percentage = 25
    /\ preset_differs(scene.render, outcome.entry[1])

\* reached as well: no drift after the first apply of that preset at 100 percent
C17_NoDriftReached ==
    /\ AppliedCycles
    /\ Get(outcome.entry[1], "render_percentage", 100) = 50
    /\ scene.render.resolution_percentage = 50
    /\ ~preset_differs(scene.render, outcome.entry[1])

-----------------------------------------------------------------------------
(* components/quick_hdri.py *)

\* math.radians(deg), in millionths of a radian (one degree is 0.017453 rad)
Radians(deg) == deg * 17453

\* os.path.basename on the paths that occur
Basename(path) ==
    CASE path = "/home/me/dawn.exr" -> "dawn.exr"
      [] path = "/home/me/gone.exr" -> "gone.exr"
      [] OTHER -> path

\* str.strip() on the names that occur
Strip(name) == IF name = "  " THEN "" ELSE name

\* load_hdri_presets(): the loader call it makes
load_hdri_presets_cached(cache, fs) == load_json_asset(cache, fs, HdriRelKey)

load_hdri_presets(cache, fs) == refresh_json_asset(cache, fs, HdriRelKey)

\* x[1].lower() of the display names that occur, as its place in string order
LowerRank(display_name) ==
    CASE display_name = "Dawn" -> 1
      [] display_name = "dawn" -> 1
      [] display_name = "Sky" -> 2
      [] display_name = "Studio" -> 3
      [] OTHER -> 0

\* list.sort(key=...) is stable: x goes behind the items whose key is not larger
RECURSIVE InsertSorted(_, _)
InsertSorted(items, x) ==
    IF items = <<>> THEN <<x>>
    ELSE IF LowerRank(x[2]) < LowerRank(Head(items)[2])
         THEN <<x>> \o items
         ELSE <<Head(items)>> \o InsertSorted(Tail(items), x)

RECURSIVE SortItems(_)
SortItems(items) ==
    IF items = <<>> THEN <<>>
    ELSE InsertSorted(SortItems(SubSeq(items, 1, Len(items) - 1)), items[Len(items)])

\* hdri_preset_items, lines 194-202, on the list load_hdri_presets returned:
\* (identifier, label) pairs
hdri_preset_items(presets) ==
    SortItems([i \in 1..Len(presets) |-> <<presets[i].file, presets[i].display_name>>])
      \o <<(<<"CUSTOM", "Custom">>)>>

\* the callback writing the base rotation without the offset
update_hdri_rotation_offset_base_only(world, pr) ==
    IF world.nodes
    THEN [world EXCEPT !.rotation = Radians(pr.hdri_base_rotation)]
    ELSE world

\* update_hdri_rotation_offset: the world after the update callback of
\* hdri_rotation_offset ran with the properties pr
update_hdri_rotation_offset(world, pr) ==
    IF world.nodes
    THEN [world EXCEPT !.rotation = Radians(pr.hdri_base_rotation + pr.hdri_rotation_offset)]
    ELSE world

\* setup_world_nodes(hdri_path, mapping_rotation_deg): the graph is rebuilt;
\* the image is loaded when the path is a file
setup_world_nodes(hdri_path, is_file, mapping_rotation_deg) ==
    [nodes |-> TRUE, image |-> IF is_file THEN hdri_path ELSE "",
     rotation |-> Radians(mapping_rotation_deg), strength |-> 1]

\* lines 58-60 and 71-73: the two property assignments, the second of which
\* runs the update callback
ResetRotation(pr) == [pr EXCEPT !.hdri_base_rotation = 0, !.hdri_rotation_offset = 0]

\* next((e for e in hdri_data if e.get("file") == hdri_file), None): 0 when None
FirstFile(hdri_data, hdri_file) ==
    LET hits == {i \in 1..Len(hdri_data) : hdri_data[i].file = hdri_file}
    IN IF hits = {} THEN 0 ELSE CHOOSE i \in hits : \A j \in hits : i <= j

\* HDRI_OT_Apply.execute
HdriApply ==
    LET hdri_file == props.hdri_preset
        custom_path == props.custom_hdri_filepath
        r == load_json_asset(json_cache, files, HdriRelKey)
        hdri_data == r.ret
        reset == ResetRotation(props)
        world1 == update_hdri_rotation_offset(scene.world, reset)
    IN IF hdri_file = "CUSTOM"
       THEN /\ NoCall
            /\ IF custom_path = "" \/ custom_path \notin disk.user_files
               THEN /\ outcome' = Done("hdri_apply", "CANCELLED", <<"ERROR">>, hdri_file, <<>>, <<>>)
                    /\ UNCHANGED <<scene, props>>
               ELSE /\ props' = reset
                    /\ scene' = [scene EXCEPT !.world = setup_world_nodes(custom_path, TRUE, 0)]
                    /\ outcome' = Done("hdri_apply", "FINISHED", <<"INFO">>, hdri_file, <<>>, <<>>)
            /\ UNCHANGED <<files, disk>>
       ELSE /\ Inner(HdriRelKey, r, files)
            /\ IF hdri_data = None
               THEN \* iterating None raises TypeError, which nothing catches
                    /\ outcome' = Done("hdri_apply", "RAISED", <<>>, hdri_file, <<>>, <<>>)
                    /\ UNCHANGED <<scene, props>>
               ELSE IF FirstFile(hdri_data.data, hdri_file) = 0
               THEN /\ outcome' = Done("hdri_apply", "CANCELLED", <<"ERROR">>, hdri_file, <<>>, <<>>)
                    /\ UNCHANGED <<scene, props>>
               ELSE IF hdri_file \notin disk.assets
               THEN /\ props' = reset
                    /\ scene' = [scene EXCEPT !.world = world1]
                    /\ outcome' = Done("hdri_apply", "CANCELLED", <<"ERROR">>, hdri_file, <<>>, <<>>)
               ELSE /\ props' = reset
                    /\ scene' = [scene EXCEPT !.world = setup_world_nodes(hdri_file, TRUE, 0)]
                    /\ outcome' = Done("hdri_apply", "FINISHED", <<"INFO">>, hdri_file,
                                       <<hdri_data.data[FirstFile(hdri_data.data, hdri_file)]>>,
                                       <<>>)
            /\ UNCHANGED <<files, disk>>

\* lines 146-152: the preset selected after the save, given what
\* load_hdri_presets() returned
Reselect(presets, dest_file) ==
    IF dest_file \in {presets[i].file : i \in 1..Len(presets)} \cup {"CUSTOM"}
    THEN dest_file ELSE "CUSTOM"

\* HDRI_OT_SavePreset.execute; copy_ok: whether shutil.copy2 succeeds;
\* w: how writing hdri.json ends
HdriSave(preset_name, copy_ok, w) ==
    LET src_path == props.custom_hdri_filepath
        dest_file == Basename(src_path)
        f == files["hdri.json"]
        data == IF f.st = "ok" THEN f.data ELSE <<>>
        new_entry == HdriEntry(dest_file, preset_name)
        written == [files EXCEPT !["hdri.json"] = OkFile(Append(data, new_entry))]
        copied == [disk EXCEPT !.assets = @ \cup {dest_file}]
        r == load_hdri_presets(json_cache, written)
        Cancelled == Done("hdri_save", "CANCELLED", <<"ERROR">>, preset_name, <<>>, <<>>)
    IN /\ Len(data) < MaxPresets
       /\ IF \/ props.hdri_preset # "CUSTOM"
             \/ src_path = "" \/ src_path \notin disk.user_files
             \/ Strip(preset_name) = ""
          THEN /\ outcome' = Cancelled
               /\ NoCall
               /\ UNCHANGED <<files, props, disk>>
          ELSE IF ~copy_ok
          THEN /\ outcome' = Cancelled
               /\ NoCall
               /\ UNCHANGED <<files, props, disk>>
          ELSE IF f.st = "corrupt"
          THEN /\ disk' = copied
               /\ outcome' = Cancelled
               /\ NoCall
               /\ UNCHANGED <<files, props>>
          ELSE IF w # "ok"
          THEN /\ disk' = copied
               /\ files' = IF w = "dump_fails"
                           THEN [files EXCEPT !["hdri.json"] = CorruptFile]
                           ELSE files
               /\ outcome' = Cancelled
               /\ NoCall
               /\ UNCHANGED props
          ELSE /\ disk' = copied
               /\ files' = written
               /\ Inner(HdriRelKey, r, written)
               /\ props' = [props EXCEPT !.hdri_preset = Reselect(OrEmpty(r.ret), dest_file)]
               /\ outcome' = Done("hdri_save", "FINISHED", <<"INFO">>, preset_name,
                                  <<new_entry>>, data)
       /\ UNCHANGED scene

\* HDRI_PT_Panel.draw: laying out the hdri_preset property evaluates
\* hdri_preset_items, which re-reads the preset file
DrawHdriPanel ==
    /\ Inner(HdriRelKey, load_hdri_presets(json_cache, files), files)
    /\ outcome' = NoOutcome
    /\ UNCHANGED <<files, scene, props, disk>>

\* The user picks item number i of the preset dropdown.
SelectHdri(i) ==
    LET r == load_hdri_presets(json_cache, files)
        items == hdri_preset_items(OrEmpty(r.ret))
    IN /\ i \in 1..Len(items)
       /\ items[i][1] # props.hdri_preset
       /\ Inner(HdriRelKey, r, files)
       /\ props' = [props EXCEPT !.hdri_preset = items[i][1]]
       /\ outcome' = NoOutcome
       /\ UNCHANGED <<files, scene, disk>>

\* The user types a path into the custom file field.
SetCustomPath(path) ==
    /\ props.custom_hdri_filepath # path
    /\ props' = [props EXCEPT !.custom_hdri_filepath = path]
    /\ outcome' = NoOutcome
    /\ NoCall
    /\ UNCHANGED <<files, scene, disk>>

\* The user drags the rotation slider: the assignment, then the update callback.
SetRotationOffset(deg) ==
    /\ props.hdri_rotation_offset # deg
    /\ props' = [props EXCEPT !.hdri_rotation_offset = deg]
    /\ scene' = [scene EXCEPT !.world = update_hdri_rotation_offset(scene.world, props')]
    /\ outcome' = NoOutcome
    /\ NoCall
    /\ UNCHANGED <<files, disk>>

HdriPool == {OkFile(<<EntryStudio>>), OkFile(<<EntrySky, EntryStudio>>),
             MissingFile, CorruptFile}

CustomPaths == {"/home/me/dawn.exr", "/home/me/gone.exr"}

HdriNames == {"Dawn", "  "}

Offsets == {0, 90}

HdriNext ==
    \/ HdriApply
    \/ \E n \in HdriNames : \E copy_ok \in BOOLEAN : \E w \in WriteOutcomes :
          HdriSave(n, copy_ok, w)
    \/ DrawHdriPanel
    \/ \E i \in 1..(MaxPresets + 1) : SelectHdri(i)
    \/ \E path \in CustomPaths : SetCustomPath(path)
    \/ \E deg \in Offsets : SetRotationOffset(deg)
    \/ \E c \in HdriPool : EditFile("hdri.json", c)

SpecHdri == Init /\ [][HdriNext]_vars

\* The choices the preset dropdown offers in the current state
HdriItems == hdri_preset_items(OrEmpty(load_hdri_presets(json_cache, files).ret))

\* C6: after a successful HDRI save-as-preset the preset file holds the
\* previous list plus exactly one appended {file, display_name} element, the
\* re-enumerated choices contain that entry, and the selected preset is the
\* saved file name.
C6_HdriSaveRoundTrip ==
    (outcome.op = "hdri_save" /\ outcome.result = "FINISHED")
      => LET e == outcome.entry[1]
         IN /\ files["hdri.json"] = OkFile(Append(outcome.before, e))
            /\ e = HdriEntry(Basename(props.custom_hdri_filepath), outcome.name)
            /\ \E i \in 1..Len(HdriItems) : HdriItems[i] = <<e.file, e.display_name>>
            /\ props.hdri_preset = e.file
            /\ props.hdri_preset \in {HdriItems[i][1] : i \in 1..Len(HdriItems)}

\* C6 witness: a save succeeded on a file that already held entries and whose
\* list had been cached before
C6_Witness ==
    /\ outcome.op = "hdri_save" /\ outcome.result = "FINISHED"
    /\ outcome.before # <<>>
    /\ props.hdri_preset = "dawn.exr"
    /\ Len(files["hdri.json"].data) = Len(outcome.before) + 1

Operators == {"hdri_apply", "hdri_save", "render_apply", "render_save", "output_apply"}

\* C10: every operator ends with FINISHED or CANCELLED; no exception escapes
\* when its preset file is missing, unreadable or unparseable.
C10_NoExceptionEscapes ==
    outcome.op \in Operators => outcome.result \in {"FINISHED", "CANCELLED"}

\* reached: HDRI apply raised on a preset file that cannot be loaded
C10_RaisedReached ==
    /\ outcome.op = "hdri_apply" /\ outcome.result = "RAISED"
    /\ ~CanParse(files["hdri.json"])

\* The scene state C11 names: the two rotation properties, the world node
\* graph with its mapping rotation, and the render settings.
RotationProps(pr) == <<pr.hdri_base_rotation, pr.hdri_rotation_offset>>

\* A step that was an HDRI apply or a render apply ending in CANCELLED
CancelledApplyStep ==
    /\ outcome'.op \in {"hdri_apply", "render_apply"}
    /\ outcome'.result = "CANCELLED"

\* C11: whenever HDRI apply or render apply is cancelled for missing or
\* invalid input, hdri_base_rotation, hdri_rotation_offset, the world node
\* graph with its mapping rotation and all render settings keep their
\* pre-operation values.
C11_CancelLeavesScene ==
    [][CancelledApplyStep =>
          /\ RotationProps(props') = RotationProps(props)
          /\ scene'.world = scene.world
          /\ scene'.render = scene.render]_vars

\* what does hold: a cancelled apply changes the rotation state only when the
\* selected preset is listed in hdri.json and its image is not in assets/hdri
C11_ExceptMissingImage ==
    [][(CancelledApplyStep
          /\ ~(outcome'.op = "hdri_apply" /\ props.hdri_preset # "CUSTOM"
                 /\ props.hdri_preset \notin disk.assets))
         => /\ RotationProps(props') = RotationProps(props)
            /\ scene'.world = scene.world
            /\ scene'.render = scene.render]_vars

\* reached: an HDRI apply cancelled for a missing image while the mapping node
\* exists, after which offset and mapping rotation are 0
C11_MissingImageReached ==
    /\ outcome.op = "hdri_apply" /\ outcome.result = "CANCELLED"
    /\ props.hdri_preset # "CUSTOM"
    /\ props.hdri_preset \notin disk.assets
    /\ CanParse(files["hdri.json"])
    /\ FirstFile(files["hdri.json"].data, props.hdri_preset) # 0
    /\ scene.world.nodes

\* A step that was an HDRI save-as-preset ending in CANCELLED
FailedHdriSaveStep == outcome'.op = "hdri_save" /\ outcome'.result = "CANCELLED"

\* The three validation failures of HDRI_OT_SavePreset.execute, lines 103-111,
\* for the name the operator was given
SaveInputInvalid(pr, dk, preset_name) ==
    \/ pr.hdri_preset # "CUSTOM"
    \/ pr.custom_hdri_filepath = ""
    \/ pr.custom_hdri_filepath \notin dk.user_files
    \/ Strip(preset_name) = ""

\* the validation failures copy no file
ValidationCopiesNothing ==
    (FailedHdriSaveStep /\ SaveInputInvalid(props, disk, outcome'.name))
       => disk'.assets = disk.assets /\ files' = files

\* the preset file is touched only once the image is in assets/hdri
CopyBeforeJson ==
    (outcome'.op = "hdri_save" /\ files'["hdri.json"] # files["hdri.json"])
       => Basename(props.custom_hdri_filepath) \in disk'.assets

\* C12: every failure outcome of HDRI save-as-preset leaves hdri.json with
\* exactly its pre-operation content; the validation failures additionally
\* copy no file, and the file copy happens before the JSON is touched.
C12_FailedSaveKeepsJson ==
    [][/\ FailedHdriSaveStep => files'["hdri.json"] = files["hdri.json"]
       /\ ValidationCopiesNothing
       /\ CopyBeforeJson]_vars

\* what does hold: a failed save leaves hdri.json as it was or, when the write
\* broke off after the file was opened for writing, unparseable; the rest of
\* the claim as stated
C12_ExceptInterruptedWrite ==
    [][/\ FailedHdriSaveStep =>
            \/ files'["hdri.json"] = files["hdri.json"]
            \/ /\ files'["hdri.json"] = CorruptFile
               /\ ~SaveInputInvalid(props, disk, outcome'.name)
               /\ files["hdri.json"].st # "corrupt"
       /\ ValidationCopiesNothing
       /\ CopyBeforeJson]_vars

\* reached: a save was cancelled and the preset file, parseable before, is not
\* parseable any more although the image was copied
C12_LostJsonReached ==
    /\ outcome.op = "hdri_save" /\ outcome.result = "CANCELLED"
    /\ files["hdri.json"] = CorruptFile
    /\ parsed[HdriRelKey] # None
    /\ Basename(props.custom_hdri_filepath) \in disk.assets

\* A step that changed the rotation offset or was a successful HDRI apply
OffsetOrApplyStep ==
    \/ props'.hdri_rotation_offset # props.hdri_rotation_offset
    \/ outcome'.op = "hdri_apply" /\ outcome'.result = "FINISHED"

\* C16: hdri_base_rotation is 0 in every state reached by HDRI applies and
\* changes of the rotation offset, and after an offset change or a successful
\* apply the mapping node's Z rotation is the current hdri_rotation_offset
\* alone, which is 0 right after a successful apply.
C16_BaseRotationAlwaysZero ==
    /\ [](props.hdri_base_rotation = 0)
    /\ [][OffsetOrApplyStep =>
            /\ scene'.world.nodes
                 => scene'.world.rotation = Radians(props'.hdri_rotation_offset)
            /\ (outcome'.op = "hdri_apply" /\ outcome'.result = "FINISHED")
                 => /\ scene'.world.nodes
                    /\ props'.hdri_rotation_offset = 0
                    /\ scene'.world.rotation = 0]_vars

\* C16 witness: the user turned the offset to 90 degrees on a world an apply
\* had built, and the mapping node is at 90 degrees
C16_Witness ==
    /\ scene.world.nodes
    /\ scene.world.image # ""
    /\ props.hdri_rotation_offset = 90
    /\ props.hdri_base_rotation = 0
    /\ scene.world.rotation = Radians(90)

\* also reached: a successful apply of a bundled preset
C16_AppliedReached ==
    /\ outcome.op = "hdri_apply" /\ outcome.result = "FINISHED"
    /\ props.hdri_preset # "CUSTOM"
    /\ scene.world.rotation = 0 /\ props.hdri_rotation_offset = 0

-----------------------------------------------------------------------------
(* components/quick_output.py *)

\* load_output_formats(): the loader call it makes (OrEmpty of its value is
\* the dictionary, {} when the file could not be loaded)
load_output_formats(cache, fs) == load_json_asset(cache, fs, OutputRelKey)

\* The place of tag among the dictionary's keys; 0 when it is not a key
Lookup(formats_dict, tag) ==
    LET hits == {i \in 1..Len(formats_dict) : formats_dict[i].tag = tag}
    IN IF hits = {} THEN 0 ELSE CHOOSE i \in hits : TRUE

\* output_preset_items: (identifier, label) pairs
output_preset_items(formats_dict) ==
    IF formats_dict = <<>>
    THEN <<(<<"None", "None">>)>>
    ELSE [i \in 1..Len(formats_dict) |->
            <<formats_dict[i].tag,
              Get(formats_dict[i], "display_name", formats_dict[i].tag)>>]

\* line 105: the record used when the chosen key is not in the dictionary
DefaultFormat ==
    OutputEntry("exr", "OpenEXR MultiLayer", "OPEN_EXR_MULTILAYER", "", "", {}, {},
                {"file_format", "display_name"})

\* passes_dict.get(key, False)
PassOn(passes_dict, key) == key \in passes_dict.keys /\ key \in passes_dict.on

\* apply_exr_settings(scene, data, props, context): the output settings
\* after it and the value it returns
apply_exr_settings(o, data, pr, dk) ==
    LET o1 == [o EXCEPT !.color_depth = Get(data, "color_depth", "16"),
                        !.exr_codec = Get(data, "exr_codec", "ZIP")]
        passes_dict == Get(data, "passes", [keys |-> {}, on |-> {}])
        set(n) ==
            CASE n \in {"cryptomatte_object", "cryptomatte_material"} ->
                    PassOn(passes_dict, n) /\ pr.use_cryptomatte
              [] n = "shadow_catcher" -> pr.use_shadow_catcher
              [] n = "ambient_occlusion" ->
                    PassOn(passes_dict, n) /\ pr.use_ambient_occlusion
              [] n \in CyclesPasses \ {"shadow_catcher"} -> PassOn(passes_dict, n)
              [] OTHER -> IF n \in passes_dict.keys THEN n \in passes_dict.on
                          ELSE o.passes[n]
    IN IF ~dk.view_layer
       THEN [out |-> o1, ok |-> FALSE]
       ELSE [out |-> [o1 EXCEPT !.passes =
                        [n \in PassNames |-> IF n \in dk.supports THEN set(n)
                                             ELSE o.passes[n]]],
             ok |-> TRUE]

apply_png_settings(o, data) ==
    [o EXCEPT !.color_mode = Get(data, "color_mode", "RGBA"),
              !.color_depth = Get(data, "color_depth", "8"),
              !.compression = Get(data, "compression", 15)]

apply_jpeg_settings(o, data) ==
    [o EXCEPT !.color_mode = Get(data, "color_mode", "RGB"),
              !.quality = Get(data, "quality", 90)]

apply_ffmpeg_settings(o, data) ==
    [o EXCEPT !.color_mode = Get(data, "color_mode", "RGB"),
              !.ffmpeg_format = Get(data, "ffmpeg_format", "MPEG4")]

\* lines 101-105 with the fallback going to whatever entry comes first
ChosenDataFirstEntry(formats_dict, tag) ==
    IF Lookup(formats_dict, tag) # 0 THEN formats_dict[Lookup(formats_dict, tag)]
    ELSE IF formats_dict # <<>> THEN formats_dict[1] ELSE DefaultFormat

\* lines 101-105: the record the operator applies
ChosenData(formats_dict, tag) ==
    LET chosen_key == IF Lookup(formats_dict, tag) = 0 THEN "exr" ELSE tag
    IN IF Lookup(formats_dict, chosen_key) = 0
       THEN DefaultFormat
       ELSE formats_dict[Lookup(formats_dict, chosen_key)]

\* OUTPUT_OT_ApplyPreset.execute
OutputApply ==
    LET r == load_output_formats(json_cache, files)
        formats_dict == OrEmpty(r.ret)
        missed == Lookup(formats_dict, props.output_preset_tag) = 0
        data == ChosenData(formats_dict, props.output_preset_tag)
        file_format == Get(data, "file_format", "OPEN_EXR_MULTILAYER")
        o1 == [scene.output EXCEPT !.file_format = file_format]
        exr == apply_exr_settings(o1, data, props, disk)
        o2 == CASE file_format = "OPEN_EXR_MULTILAYER" -> exr.out
                [] file_format = "PNG" -> apply_png_settings(o1, data)
                [] file_format = "JPEG" -> apply_jpeg_settings(o1, data)
                [] file_format = "FFMPEG" -> apply_ffmpeg_settings(o1, data)
                [] OTHER -> o1
    IN /\ Inner(OutputRelKey, r, files)
       /\ scene' = [scene EXCEPT !.output = o2]
       /\ outcome' = Done("output_apply", "FINISHED",
                          (IF missed THEN <<"WARNING">> ELSE <<>>)
                            \o (IF file_format = "OPEN_EXR_MULTILAYER" /\ ~exr.ok
                                THEN <<"WARNING">> ELSE <<>>)
                            \o <<"INFO">>,
                          props.output_preset_tag, <<data>>, <<>>)
       /\ UNCHANGED <<files, props, disk>>

\* OUTPUT_PT_PresetPanel.draw: laying out output_preset_tag evaluates
\* output_preset_items
DrawOutputPanel ==
    /\ Inner(OutputRelKey, load_output_formats(json_cache, files), files)
    /\ outcome' = NoOutcome
    /\ UNCHANGED <<files, scene, props, disk>>

\* The user picks item number i of the format dropdown.
SelectOutput(i) ==
    LET r == load_output_formats(json_cache, files)
        items == output_preset_items(OrEmpty(r.ret))
    IN /\ i \in 1..Len(items)
       /\ items[i][1] # props.output_preset_tag
       /\ Inner(OutputRelKey, r, files)
       /\ props' = [props EXCEPT !.output_preset_tag = items[i][1]]
       /\ outcome' = NoOutcome
       /\ UNCHANGED <<files, scene, disk>>

\* The user flips one of the three checkboxes of the panel.
ToggleCheckbox(name) ==
    /\ props' = [props EXCEPT ![name] = ~@]
    /\ outcome' = NoOutcome
    /\ NoCall
    /\ UNCHANGED <<files, scene, disk>>

\* The context changes: no active view layer, or one with or without the
\* cycles settings.
SetViewLayer(present, supports) ==
    /\ <<disk.view_layer, disk.supports>> # <<present, supports>>
    /\ disk' = [disk EXCEPT !.view_layer = present, !.supports = supports]
    /\ outcome' = NoOutcome
    /\ NoCall
    /\ UNCHANGED <<files, scene, props>>

OutputPool == {OkFile(<<FormatExr, FormatPng>>), OkFile(<<FormatPng, FormatMov>>),
               OkFile(<<FormatExrFlat, FormatPng>>), OkFile(<<FormatExrBare>>),
               OkFile(<<>>), MissingFile, CorruptFile}

OutputNext ==
    \/ OutputApply
    \/ DrawOutputPanel
    \/ \E i \in 1..MaxPresets : SelectOutput(i)
    \/ \E name \in {"use_cryptomatte", "use_ambient_occlusion", "use_shadow_catcher"} :
          ToggleCheckbox(name)
    \/ \E present \in BOOLEAN : \E supports \in {PassNames, PassNames \ CyclesPasses} :
          SetViewLayer(present, supports)
    \/ \E c \in OutputPool : EditFile("output.json", c)

SpecOutput == Init /\ [][OutputNext]_vars

\* The dictionary load_output_formats() returns in the current state; right
\* after an apply it is the one the apply used.
OutputFormats == OrEmpty(load_output_formats(json_cache, files).ret)

AppliedOnMiss ==
    /\ outcome.op = "output_apply"
    /\ \A i \in 1..Len(OutputFormats) : OutputFormats[i].tag # props.output_preset_tag

\* C9 as written: applying with a tag absent from the dictionary warns, sets
\* the scene file format to OPEN_EXR_MULTILAYER and returns FINISHED.
C9_FallsBackToMultilayer ==
    AppliedOnMiss
      => /\ outcome.result = "FINISHED"
         /\ outcome.reports[1] = "WARNING"
         /\ scene.output.file_format = "OPEN_EXR_MULTILAYER"

\* C9 amended: applying with a tag absent from the dictionary warns and
\* returns FINISHED; the scene file format is that of the dictionary's "exr"
\* entry when there is one (OPEN_EXR_MULTILAYER when the entry names no
\* format), and OPEN_EXR_MULTILAYER when there is none.
C9_FallsBackToExrEntry ==
    AppliedOnMiss
      => /\ outcome.result = "FINISHED"
         /\ outcome.reports[1] = "WARNING"
         /\ \A i \in 1..Len(OutputFormats) :
               (OutputFormats[i].tag = "exr" /\ "file_format" \in OutputFormats[i].keys)
                  => scene.output.file_format = OutputFormats[i].file_format
         /\ (\A i \in 1..Len(OutputFormats) :
               OutputFormats[i].tag = "exr" => "file_format" \notin OutputFormats[i].keys)
                  => scene.output.file_format = "OPEN_EXR_MULTILAYER"

\* C9 witness: the apply ran with a tag the dictionary lacks because the file
\* could not be loaded
C9_Witness ==
    /\ AppliedOnMiss
    /\ ~CanParse(files["output.json"]) /\ OutputFormats = <<>>
    /\ scene.output.file_format = "OPEN_EXR_MULTILAYER"
    /\ outcome.reports = <<"WARNING", "INFO">>

\* also reached: a miss with entries in the dictionary but no "exr" among them
C9_NoExrReached ==
    /\ AppliedOnMiss
    /\ OutputFormats # <<>>
    /\ \A i \in 1..Len(OutputFormats) : OutputFormats[i].tag # "exr"
    /\ scene.output.file_format = "OPEN_EXR_MULTILAYER"

\* A multi-layer image preset was applied with an active view layer that
\* has the cycles shadow-catcher attribute
AppliedMultilayer ==
    /\ outcome.op = "output_apply" /\ outcome.result = "FINISHED"
    /\ scene.output.file_format = "OPEN_EXR_MULTILAYER"
    /\ disk.view_layer
    /\ "shadow_catcher" \in disk.supports

\* passes.get(name, False) of the record that was applied
PresetEnables(name) ==
    /\ "passes" \in outcome.entry[1].keys
    /\ name \in outcome.entry[1].passes.keys
    /\ name \in outcome.entry[1].passes.on

\* C15: when a multi-layer image preset is applied and the view layer
\* supports the pass, the shadow-catcher pass is gated like the cryptomatte
\* passes: it is enabled exactly when the checkbox use_shadow_catcher is on
\* and the preset's passes record enables shadow_catcher.
C15_ShadowCatcherGatedByBoth ==
    AppliedMultilayer
      => (scene.output.passes["shadow_catcher"]
            <=> (props.use_shadow_catcher /\ PresetEnables("shadow_catcher")))

\* what does hold: the shadow-catcher pass follows the checkbox alone, while
\* the cryptomatte passes need the checkbox and the preset
C15_ShadowCatcherFollowsCheckbox ==
    AppliedMultilayer
      => /\ scene.output.passes["shadow_catcher"] <=> props.use_shadow_catcher
         /\ "cryptomatte_object" \in disk.supports
              => (scene.output.passes["cryptomatte_object"]
                    <=> (props.use_cryptomatte /\ PresetEnables("cryptomatte_object")))

\* reached: the pass is on after applying a preset whose passes record lists
\* shadow_catcher as off
C15_EnabledAgainstPresetReached ==
    /\ AppliedMultilayer
    /\ "passes" \in outcome.entry[1].keys
    /\ "shadow_catcher" \in outcome.entry[1].passes.keys
    /\ ~PresetEnables("shadow_catcher")
    /\ scene.output.passes["shadow_catcher"]

====
